---- MODULE Spec2Model ----
(***************************************************************************)
(* Model of benchmarker-action (src/src/bench.rs, src/src/main.rs).        *)
(*                                                                         *)
(* f64 values are modelled as exact rationals extended with NaN and the    *)
(* infinities; nonnegative quantities that the code takes a square root    *)
(* of are carried as their squares (sqrt is monotone, so comparisons of    *)
(* nonnegative numbers are comparisons of their squares).  The rounding of *)
(* f64 arithmetic is not modelled.  u32 values are carried as two 16-bit   *)
(* limbs so that wrap-around is exact.                                     *)
(***************************************************************************)
EXTENDS Integers, Naturals, Sequences, FiniteSets, TLC

(***************************************************************************)
(* Bounds of the checked instances.                                        *)
(***************************************************************************)
MaxValue == 2
MaxVariance == 2
MaxReps == 3
MaxDf == 130
MaxBenches == 2
MaxHuman == 1200
MaxCommands == 2
MaxHistory == 2

\* counter values, variances and repetition counts of the statistics instance
Values == (0..MaxValue) \cup {100, 110}
Variances == 0..MaxVariance
Repetitions == (0..MaxReps) \cup {20, 61, 125}

VARIABLES
    old,              \* bench.rs: the `old` BenchCounter argument
    new,              \* bench.rs: the `new` BenchCounter argument
    overflow_checks,  \* build profile: TRUE = integer overflow panics, FALSE = wraps
    percentage,       \* result of the last improvement_percentage(old, new) call
    significant,      \* result of the last is_significant(old, new) call
    row,              \* result of the last render_markdown_row(md, name, old, new) call
    percentage_swapped,  \* result of improvement_percentage(new, old)
    significant_swapped, \* result of is_significant(new, old)
    df1, df2,         \* arguments of get_stat_score_95
    score1, score2,   \* results of get_stat_score_95(df1), get_stat_score_95(df2)
    bench_data,       \* main.rs: the BenchData of the current run
    base_results,     \* main.rs: the BenchData of the base commit
    render_versus_other,  \* main.rs: Config::render_versus_other
    render_versus_self,   \* main.rs: Config::render_versus_self
    buf,              \* main.rs: the markdown buffer the renderers append to
    render_panicked,  \* a renderer has panicked (the process is gone)
    calls             \* the renderers called on buf so far, in order

statVars == <<old, new, percentage, significant, row,
              percentage_swapped, significant_swapped>>
scoreVars == <<df1, df2, score1, score2>>
renderVars == <<bench_data, base_results, render_versus_other, render_versus_self,
                buf, render_panicked, calls>>

VARIABLES
    human_value,      \* main.rs: the f64 wrapped by HumanReadable
    human_text        \* main.rs: what Display for HumanReadable writes for it

humanVars == <<human_value, human_text>>

VARIABLES
    pc,               \* main.rs: where main is
    config_ok,        \* main.rs: the config file parses as Config
    commands,         \* main.rs: Config::commands, group name -> command lines
    summary_path,     \* main.rs: GITHUB_STEP_SUMMARY is set
    history,          \* main.rs: the lines of the previous-results file, if it exists
    line_index,       \* main.rs: the line of the history the scan is at
    previous,     \* main.rs: the baseline found by the scan
    group_index,      \* main.rs: the group the benchmark loop is at
    cmd_index,        \* main.rs: the command line of the group the loop is at
    results,    \* main.rs: the results of the current group so far
    running,          \* bench.rs: the measurement process that has not exited yet
    log,              \* the spawns and exits of measurement processes, in order
    stdout,           \* main.rs: the lines printed to stdout
    stderr,           \* main.rs: what was printed to stderr
    summary,          \* main.rs: the content written to the step-summary file
    panic_site        \* main.rs: the stage at which main panicked

mainInputs == <<config_ok, commands, summary_path, history>>
mainVars == <<pc, mainInputs, line_index, previous, group_index, cmd_index,
              results, running, log, stdout, stderr, summary, panic_site>>
otherVars == <<humanVars, mainVars>>
vars == <<overflow_checks, statVars, scoreVars, renderVars, otherVars>>

None == [k |-> "none"]

(***************************************************************************)
(* Natural numbers beyond the range of machine integers: little-endian     *)
(* sequences of base-1000 limbs.  Used for the exact comparison of the     *)
(* t statistic with the threshold.                                         *)
(***************************************************************************)
Base == 1000

RECURSIVE BigOf(_)
BigOf(n) == IF n < Base THEN <<n>> ELSE <<n % Base>> \o BigOf(n \div Base)

RECURSIVE BigMulCarry(_, _, _)
BigMulCarry(b, k, carry) ==
    IF b = <<>>
    THEN IF carry = 0 THEN <<>> ELSE BigOf(carry)
    ELSE LET p == Head(b) * k + carry
         IN  <<p % Base>> \o BigMulCarry(Tail(b), k, p \div Base)

BigMul(b, k) == BigMulCarry(b, k, 0)

RECURSIVE BigTrim(_)
BigTrim(b) ==
    IF b = <<>> THEN <<>>
    ELSE IF b[Len(b)] = 0 THEN BigTrim(SubSeq(b, 1, Len(b) - 1))
    ELSE b

RECURSIVE BigGTFrom(_, _, _)
BigGTFrom(a, b, i) ==
    IF i = 0 THEN FALSE
    ELSE IF a[i] # b[i] THEN a[i] > b[i]
    ELSE BigGTFrom(a, b, i - 1)

BigGT(a, b) ==
    LET x == BigTrim(a)
        y == BigTrim(b)
    IN  IF Len(x) # Len(y) THEN Len(x) > Len(y)
        ELSE BigGTFrom(x, y, Len(x))

RECURSIVE BigAddCarry(_, _, _)
BigAddCarry(a, b, carry) ==
    IF a = <<>> /\ b = <<>>
    THEN IF carry = 0 THEN <<>> ELSE <<carry>>
    ELSE LET x == IF a = <<>> THEN 0 ELSE Head(a)
             y == IF b = <<>> THEN 0 ELSE Head(b)
             ra == IF a = <<>> THEN <<>> ELSE Tail(a)
             rb == IF b = <<>> THEN <<>> ELSE Tail(b)
             t == x + y + carry
         IN  <<t % Base>> \o BigAddCarry(ra, rb, t \div Base)

BigAdd(a, b) == BigAddCarry(a, b, 0)

RECURSIVE BigMulBig(_, _)
BigMulBig(a, b) ==
    IF b = <<>> THEN <<>>
    ELSE BigAdd(BigMul(a, Head(b)), <<0>> \o BigMulBig(a, Tail(b)))

BigIsZero(b) == BigTrim(b) = <<>>

(***************************************************************************)
(* f64 values: NaN, +-infinity, or the rational n/d with d > 0.            *)
(***************************************************************************)
NaN == [k |-> "nan"]
Inf(s) == [k |-> "inf", s |-> s]
Fin(n, d) == [k |-> "fin", n |-> n, d |-> d]

Sgn(n) == IF n > 0 THEN 1 ELSE IF n < 0 THEN -1 ELSE 0
Abs(n) == IF n < 0 THEN -n ELSE n

\* f64 division of two integral values
FDiv(n, d) ==
    IF d = 0 THEN (IF n = 0 THEN NaN ELSE Inf(Sgn(n)))
    ELSE IF d < 0 THEN Fin(-n, -d)
    ELSE Fin(n, d)

\* f64 multiplication by a positive integral constant
FScale(x, c) ==
    IF x.k = "fin" THEN Fin(x.n * c, x.d) ELSE x

\* f64 `==`: NaN is equal to nothing
FEq(x, y) ==
    /\ x.k # "nan"
    /\ y.k # "nan"
    /\ x.k = y.k
    /\ IF x.k = "inf" THEN x.s = y.s ELSE x.n * y.d = y.n * x.d

\* f64 `> 0.0` and `< 0.0`: false for NaN
FPositive(x) == (x.k = "inf" /\ x.s = 1) \/ (x.k = "fin" /\ x.n > 0)
FNegative(x) == (x.k = "inf" /\ x.s = -1) \/ (x.k = "fin" /\ x.n < 0)

(***************************************************************************)
(* u32 arithmetic on 16-bit limbs.  A result is [panicked, value].         *)
(***************************************************************************)
Limb == 65536

U32(n) == [hi |-> n \div Limb, lo |-> n % Limb]

U32Add(a, b, checks) ==
    LET lo == a.lo + b.lo
        hi == a.hi + b.hi + (lo \div Limb)
    IN  IF hi >= Limb /\ checks
        THEN [panicked |-> TRUE, value |-> U32(0)]
        ELSE [panicked |-> FALSE, value |-> [hi |-> hi % Limb, lo |-> lo % Limb]]

U32Sub(a, b, checks) ==
    LET borrow == IF a.lo >= b.lo THEN 0 ELSE 1
        lo == a.lo + borrow * Limb - b.lo
        hi == a.hi - b.hi - borrow
    IN  IF hi < 0 /\ checks
        THEN [panicked |-> TRUE, value |-> U32(0)]
        ELSE [panicked |-> FALSE, value |-> [hi |-> (hi + Limb) % Limb, lo |-> lo]]

U32LessEq(a, n) == a.hi = 0 /\ a.lo <= n

\* the value of a u32 as a natural number
BigOfU32(a) == BigMulCarry(BigOf(a.hi), Limb, a.lo)

(***************************************************************************)
(* Squares of nonnegative f64 values: NaN, +infinity, or n/d with n, d     *)
(* natural numbers (limb sequences), d > 0.  The sign of a zero is not     *)
(* kept: the only zero the code can divide by is se, and a negative zero   *)
(* arises only from repetitions = 0 on both sides, where se is NaN.        *)
(***************************************************************************)
SNaN == [k |-> "nan"]
SInf == [k |-> "inf"]
SFin(n, d) == [k |-> "fin", n |-> n, d |-> d]

\* square of `(p / df as f64).sqrt()` for an integral f64 p and a u32 df
SqrtOfQuotient(p, df) ==
    IF df.hi = 0 /\ df.lo = 0
    THEN IF p > 0 THEN SInf ELSE SNaN
    ELSE IF p < 0 THEN SNaN
    ELSE SFin(BigOf(p), BigOfU32(df))

\* square of `(1.0 / n1 + 1.0 / n2).sqrt()`
SqrtOfInverseSum(n1, n2) ==
    IF n1 = 0 \/ n2 = 0 THEN SInf
    ELSE SFin(BigOf(n1 + n2), BigOf(n1 * n2))

\* square of the f64 product a * b
SMul(a, b) ==
    IF a.k = "nan" \/ b.k = "nan" THEN SNaN
    ELSE IF a.k = "inf"
    THEN IF b.k = "fin" /\ BigIsZero(b.n) THEN SNaN ELSE SInf
    ELSE IF b.k = "inf"
    THEN IF BigIsZero(a.n) THEN SNaN ELSE SInf
    ELSE SFin(BigMulBig(a.n, b.n), BigMulBig(a.d, b.d))

\* square of the f64 quotient d / se for an integral d >= 0
SDiv(d, se) ==
    IF se.k = "nan" THEN SNaN
    ELSE IF se.k = "inf" THEN SFin(BigOf(0), BigOf(1))
    ELSE IF BigIsZero(se.n)
    THEN IF d = 0 THEN SNaN ELSE SInf
    ELSE SFin(BigMulBig(BigOf(d * d), se.d), se.n)

\* variant: the comparison written as `!(t <= c)`, which is true for NaN
SExceeds_not_le(t, c) ==
    IF t.k = "nan" THEN TRUE
    ELSE IF t.k = "inf" THEN TRUE
    ELSE BigGT(BigMul(BigMul(t.n, 1000), 1000), BigMulBig(BigOf(c * c), t.d))

\* f64 `t > c` for t given by its square and c > 0 given in thousandths
SExceeds(t, c) ==
    IF t.k = "nan" THEN FALSE
    ELSE IF t.k = "inf" THEN TRUE
    ELSE BigGT(BigMul(BigMul(t.n, 1000), 1000), BigMulBig(BigOf(c * c), t.d))

(***************************************************************************)
(* bench.rs: the critical value tables, in thousandths.                    *)
(***************************************************************************)
T_TABLE95_1TO30 ==
    << 12706, 4303, 3182, 2776, 2571, 2447, 2365, 2306, 2262, 2228, 2201, 2179, 2160,
       2145, 2131, 2120, 2110, 2101, 2093, 2086, 2080, 2074, 2069, 2064, 2060, 2056, 2052,
       2045, 2048, 2042 >>

T_TABLE95_10S_10TO120 ==
    << 2228, 2086, 2042, 2021, 2009, 2000, 1994, 1990, 1987, 1984, 1982, 1980 >>

Panic == [panicked |-> TRUE]
Ok(v) == [panicked |-> FALSE, value |-> v]

\* bench.rs get_stat_score_95: the score in thousandths, or a panic.
\* `dfv - 1` with dfv = 0 panics on the subtraction when overflow is checked
\* and on the index (usize::MAX) when it wraps.
get_stat_score_95(df) ==
    IF U32LessEq(df, 30)
    THEN IF df.lo = 0 THEN Panic ELSE Ok(T_TABLE95_1TO30[df.lo])
    ELSE IF U32LessEq(df, 120)
    THEN LET idx_10s == df.lo \div 10
         IN  Ok(T_TABLE95_10S_10TO120[idx_10s])
    ELSE Ok(1960)

\* bench.rs BenchCounter::improvement_percentage
improvement_percentage(o, n) ==
    FScale(FDiv(n.value - o.value, n.value), 100)

\* variant: one degree of freedom too many (n1 + n2 - 1)
DegreesOfFreedom_minus_one(o, n, checks) ==
    LET sum == U32Add(U32(o.repetitions), U32(n.repetitions), checks)
    IN  IF sum.panicked THEN Panic
        ELSE LET diff == U32Sub(sum.value, U32(1), checks)
             IN  IF diff.panicked THEN Panic ELSE Ok(diff.value)

\* bench.rs is_significant, line 58: old.repetitions + new.repetitions - 2
DegreesOfFreedom(o, n, checks) ==
    LET sum == U32Add(U32(o.repetitions), U32(n.repetitions), checks)
    IN  IF sum.panicked THEN Panic
        ELSE LET diff == U32Sub(sum.value, U32(2), checks)
             IN  IF diff.panicked THEN Panic ELSE Ok(diff.value)

\* variant: the variance of `old` used for both samples
TStatistic_old_variance_twice(o, n, df) ==
    LET n1 == o.repetitions
        n2 == n.repetitions
        s == SqrtOfQuotient((n1 - 1) * o.variance + (n2 - 1) * o.variance, df)
        se == SMul(s, SqrtOfInverseSum(n1, n2))
    IN  SDiv(Abs(n.value - o.value), se)

\* bench.rs is_significant, lines 61-65: the square of t_statistic
TStatistic(o, n, df) ==
    LET x1_bar == o.value
        s1_sqr == o.variance
        n1 == o.repetitions
        x2_bar == n.value
        s2_sqr == n.variance
        n2 == n.repetitions
        s == SqrtOfQuotient((n1 - 1) * s1_sqr + (n2 - 1) * s2_sqr, df)
        se == SMul(s, SqrtOfInverseSum(n1, n2))
    IN  SDiv(Abs(x2_bar - x1_bar), se)

\* bench.rs BenchCounter::is_significant: [panicked, value]
is_significant(o, n, checks) ==
    LET df == DegreesOfFreedom(o, n, checks)
    IN  IF df.panicked THEN Panic
        ELSE LET t_statistic == TStatistic(o, n, df.value)
                 threshold == get_stat_score_95(df.value)
             IN  IF threshold.panicked THEN Panic
                 ELSE Ok(SExceeds(t_statistic, threshold.value))

(***************************************************************************)
(* Number formatting.  A text is [k |-> "nan"], [k |-> "inf", sign] or     *)
(* [k |-> "num", sign, scaled] with `scaled` the printed digits read as an *)
(* integer (the value times 10^decimals, rounded half to even).            *)
(***************************************************************************)
Pow10(decimals) ==
    IF decimals = 0 THEN 1 ELSE IF decimals = 1 THEN 10
    ELSE IF decimals = 2 THEN 100 ELSE 1000

RoundHalfEven(n, d) ==
    LET q == n \div d
        r == n % d
    IN  IF 2 * r > d THEN q + 1
        ELSE IF 2 * r = d THEN q + (q % 2)
        ELSE q

\* format!("{:.N}", x): the sign is printed for negative values only
FormatPlain(x, decimals) ==
    IF x.k = "nan" THEN [k |-> "nan"]
    ELSE IF x.k = "inf" THEN [k |-> "inf", sign |-> IF x.s < 0 THEN "-" ELSE ""]
    ELSE [k |-> "num", sign |-> IF x.n < 0 THEN "-" ELSE "",
          scaled |-> RoundHalfEven(Abs(x.n) * Pow10(decimals), x.d)]

\* `variance.sqrt().round()` for an integral variance: round half away from zero
RoundSqrt(v) ==
    CHOOSE r \in 0..(v + 1) :
        /\ (r = 0 \/ (2 * r - 1) * (2 * r - 1) <= 4 * v)
        /\ 4 * v < (2 * r + 1) * (2 * r + 1)

\* format!("{:+.N}", x): the sign is always printed
FormatSigned(x, decimals) ==
    IF x.k = "nan" THEN [k |-> "nan"]
    ELSE IF x.k = "inf" THEN [k |-> "inf", sign |-> IF x.s < 0 THEN "-" ELSE "+"]
    ELSE [k |-> "num", sign |-> IF x.n < 0 THEN "-" ELSE "+",
          scaled |-> RoundHalfEven(Abs(x.n) * Pow10(decimals), x.d)]

\* variant: the two markers of a significant change exchanged
render_markdown_row_markers_exchanged(name, o, n, checks) ==
    LET pct == improvement_percentage(o, n)
        sig == is_significant(o, n, checks)
    IN  IF sig.panicked THEN Panic
        ELSE LET marker == IF sig.value
                           THEN IF FPositive(pct) THEN "better" ELSE "worse"
                           ELSE "none"
             IN  Ok([name |-> name, before |-> o.value, after |-> n.value,
                     marker |-> marker, percentage |-> pct,
                     text |-> FormatSigned(pct, 2)])

\* bench.rs BenchCounter::render_markdown_row: the row appended to md, or a panic
render_markdown_row(name, o, n, checks) ==
    LET pct == improvement_percentage(o, n)
        sig == is_significant(o, n, checks)
    IN  IF sig.panicked THEN Panic
        ELSE LET marker == IF sig.value
                           THEN IF FPositive(pct) THEN "worse" ELSE "better"
                           ELSE "none"
             IN  Ok([name |-> name, before |-> o.value, after |-> n.value,
                     marker |-> marker, percentage |-> pct,
                     text |-> FormatSigned(pct, 2)])

(***************************************************************************)
(* main.rs HumanReadable.  The quotient v / 1000^j is the f64 division: the *)
(* nearest double m / 2^k of the exact quotient, ties to the even mantissa. *)
(* {:6.2} prints the exact value of that double rounded to two decimals,    *)
(* ties to even, right-aligned in at least 6 characters.                    *)
(***************************************************************************)
RECURSIVE BigPow2(_)
BigPow2(k) == IF k <= 20 THEN BigOf(2 ^ k) ELSE BigMul(BigPow2(k - 20), 2 ^ 20)

RECURSIVE Log2(_)
Log2(n) == IF n < 2 THEN 0 ELSE 1 + Log2(n \div 2)

RECURSIVE LimbsValue(_)
LimbsValue(b) == IF b = <<>> THEN 0 ELSE Head(b) + Base * LimbsValue(Tail(b))

\* f64 `v / u` for integers v >= u = 1000^j: mantissa m (53 bits) and scale k
F64Quotient(v, j) ==
    LET u == 1000 ^ j
        k == 52 - Log2(v \div u)
        scaled == BigMulBig(BigOf(v), BigPow2(k))
        m0 == SubSeq(scaled, j + 1, Len(scaled))
        r == LimbsValue(SubSeq(scaled, 1, j))
        up == 2 * r > u \/ (2 * r = u /\ m0[1] % 2 = 1)
    IN  [m |-> IF up THEN BigAdd(m0, <<1>>) ELSE m0, k |-> k]

\* the hundredths `{:.2}` prints for the double q.m / 2^(q.k), which lies
\* within one ulp of hx / 100 .. (hx + 1) / 100
Hundredths(q, hx) ==
    LET value == BigMul(q.m, 200)
        midpoint == BigMulBig(BigPow2(q.k), BigOf(2 * hx + 1))
    IN  IF BigGT(midpoint, value) THEN hx
        ELSE IF BigGT(value, midpoint) THEN hx + 1
        ELSE IF hx % 2 = 0 THEN hx ELSE hx + 1

RECURSIVE PadLeft(_, _)
PadLeft(s, width) == IF Len(s) >= width THEN s ELSE PadLeft(" " \o s, width)

TwoDigits(n) == IF n < 10 THEN "0" \o ToString(n) ELSE ToString(n)

\* format!("{:6.2}{suffix}", v / 1000^j)
FormatScaled(v, j, suffix) ==
    LET h == Hundredths(F64Quotient(v, j), v \div ((1000 ^ j) \div 100))
    IN  PadLeft(ToString(h \div 100) \o "." \o TwoDigits(h % 100), 6) \o suffix

\* variant: the unsuffixed branch taken up to and including 1000
HumanReadable_thousand_unscaled(v) ==
    IF v >= 1000000000 THEN FormatScaled(v, 3, "G")
    ELSE IF v >= 1000000 THEN FormatScaled(v, 2, "M")
    ELSE IF v > 1000 THEN FormatScaled(v, 1, "K")
    ELSE PadLeft(ToString(v), 7)

\* main.rs Display for HumanReadable, for a whole number v >= 0
HumanReadable(v) ==
    IF v >= 1000000000 THEN FormatScaled(v, 3, "G")
    ELSE IF v >= 1000000 THEN FormatScaled(v, 2, "M")
    ELSE IF v >= 1000 THEN FormatScaled(v, 1, "K")
    ELSE PadLeft(ToString(v), 7)

(***************************************************************************)
(* main.rs data.  An IndexMap is a sequence of [key, value] entries with   *)
(* distinct keys, in insertion order; a BTreeMap is a function on its key  *)
(* set.  A metric name is a sequence of tokens, so that strip_prefix and   *)
(* strip_suffix act on it.  An Option is NoneOpt or Some(v).               *)
(***************************************************************************)
NoneOpt == [k |-> "none"]
Some(v) == [k |-> "some", v |-> v]

RECURSIVE IndexMapGet(_, _)
IndexMapGet(m, key) ==
    IF m = <<>> THEN NoneOpt
    ELSE IF Head(m).key = key THEN Some(Head(m).value)
    ELSE IndexMapGet(Tail(m), key)

\* BTreeMap::get
CountersGet(counters, name) ==
    IF name \in DOMAIN counters THEN Some(counters[name]) ELSE NoneOpt

Cycles == <<"cycles">>
CoreCycles == <<"cpu_core/", "cycles", "/">>

\* the metric names in the order of String's Ord ("cpu_core/cycles/" < "cycles")
MetricOrder == <<CoreCycles, Cycles>>

\* main.rs lines 162-166: counter.strip_prefix("cpu_core/").unwrap_or(counter)
\*                               .strip_suffix("/").unwrap_or(&counter)
StripDecoration(counter) ==
    LET a == IF Len(counter) >= 1 /\ Head(counter) = "cpu_core/"
             THEN Tail(counter) ELSE counter
    IN  IF Len(a) >= 1 /\ a[Len(a)] = "/"
        THEN SubSeq(a, 1, Len(a) - 1)
        ELSE counter

\* variant: the cpu_model assertion left out
EnvAgrees_without_cpu_model(a, b) ==
    /\ a.arch = b.arch
    /\ a.os = b.os
    /\ a.runner = b.runner

\* main.rs lines 97-100 and 226-229: the four assert_eq!
EnvAgrees(a, b) ==
    /\ a.arch = b.arch
    /\ a.os = b.os
    /\ a.runner = b.runner
    /\ a.cpu_model = b.cpu_model

Written(md) == [panicked |-> FALSE, md |-> md]
Aborted(md) == [panicked |-> TRUE, md |-> md]

\* `&data.bench_groups[&command][index].counters.get(&measure)`:
\* Index on the IndexMap and on the Vec panic, BTreeMap::get returns None
Resolve(data, command, index, measure) ==
    LET group == IndexMapGet(data.bench_groups, command)
    IN  IF group.k = "none" THEN Panic
        ELSE IF index >= Len(group.v) THEN Panic
        ELSE Ok(CountersGet(group.v[index + 1].counters, measure))

\* one iteration of the row loops, main.rs lines 263-278 and 314-329;
\* b and a are the [data, command, index] of the before and the after side
RenderComparison(md, name, measure, b, a, checks) ==
    LET before == Resolve(b.data, b.command, b.index, measure)
    IN  IF before.panicked THEN Aborted(md)
        ELSE IF before.value.k = "none" THEN Written(md)
        ELSE LET after == Resolve(a.data, a.command, a.index, measure)
             IN  IF after.panicked THEN Aborted(md)
                 ELSE IF after.value.k = "none" THEN Written(md)
                 ELSE LET r == render_markdown_row(name, before.value.v,
                                                    after.value.v, checks)
                      IN  IF r.panicked THEN Aborted(md)
                          ELSE Written(Append(md, [kind |-> "row"] @@ r.value))

Side(data, command, index) == [data |-> data, command |-> command, index |-> index]

TableHead(md, group_name) ==
    md \o << [kind |-> "h3", title |-> group_name],
             [kind |-> "blank"],
             [kind |-> "thead", cells |-> <<"name", "before", "after", "delta">>],
             [kind |-> "tsep", cells |-> 4] >>

\* main.rs lines 263-278: `for (name, row) in rows.rows`
RECURSIVE DiffRows(_, _, _, _, _, _)
DiffRows(md, rows, table, before, after, checks) ==
    IF rows = <<>> THEN Written(md)
    ELSE LET r == RenderComparison(md, Head(rows).key, table.measure,
                                   Side(before, table.command, Head(rows).value),
                                   Side(after, table.command, Head(rows).value),
                                   checks)
         IN  IF r.panicked THEN r
             ELSE DiffRows(r.md, Tail(rows), table, before, after, checks)

\* main.rs lines 252-279: `for (group_name, rows) in render`
RECURSIVE DiffTables(_, _, _, _, _)
DiffTables(md, render, before, after, checks) ==
    IF render = <<>> THEN Written(md)
    ELSE LET r == DiffRows(TableHead(md, Head(render).key), Head(render).value.rows,
                           Head(render).value, before, after, checks)
         IN  IF r.panicked THEN r
             ELSE DiffTables(r.md, Tail(render), before, after, checks)

\* main.rs BenchData::render_markdown_diff_pretty
render_markdown_diff_pretty(md, render, before, after, checks) ==
    IF ~EnvAgrees(before, after) THEN Aborted(md)
    ELSE DiffTables(Append(md, [kind |-> "h2", commit |-> after.commit_hash,
                                parent |-> Some(before.commit_hash),
                                cpu |-> after.cpu_model]),
                    render, before, after, checks)

\* main.rs lines 314-329: `for (name, row) in rows`
RECURSIVE SelfRows(_, _, _, _)
SelfRows(md, rows, data, checks) ==
    IF rows = <<>> THEN Written(md)
    ELSE LET compare == Head(rows).value
             r == RenderComparison(md, Head(rows).key, compare.measure,
                                   Side(data, compare.before.command,
                                        compare.before.index),
                                   Side(data, compare.after.command,
                                        compare.after.index),
                                   checks)
         IN  IF r.panicked THEN r
             ELSE SelfRows(r.md, Tail(rows), data, checks)

\* main.rs lines 306-330: `for (group_name, rows) in render`
RECURSIVE SelfTables(_, _, _, _)
SelfTables(md, render, data, checks) ==
    IF render = <<>> THEN Written(md)
    ELSE LET r == SelfRows(TableHead(md, Head(render).key), Head(render).value,
                           data, checks)
         IN  IF r.panicked THEN r
             ELSE SelfTables(r.md, Tail(render), data, checks)

\* main.rs BenchData::render_markdown_self_diff_pretty
render_markdown_self_diff_pretty(md, render, data, checks) ==
    SelfTables(Append(md, [kind |-> "h2", commit |-> data.commit_hash,
                           parent |-> NoneOpt, cpu |-> data.cpu_model]),
               render, data, checks)

\* main.rs lines 169-181: the delta of a raw-dump cell; the sign is chosen by
\* the comparison and the magnitude is formatted with "{:.1}"
RawDiff(data, prev_data) ==
    LET number == IF data.value > prev_data.value
                  THEN FScale(FDiv(data.value - prev_data.value, prev_data.value), 100)
                  ELSE FScale(FDiv(prev_data.value - data.value, prev_data.value), 100)
    IN  [sign |-> IF data.value > prev_data.value THEN "+" ELSE "-",
         number |-> number,
         text |-> FormatPlain(number, 1)]

\* main.rs lines 186-192 and 199-205: "`{value}±{sd}` {unit} "
RawValueCell(counter, data) ==
    [col |-> "value", counter |-> counter,
     text |-> IF data.unit = "msec" THEN FormatPlain(Fin(data.value, 1), 3)
              ELSE FormatPlain(Fin(data.value, 1), 0),
     sd |-> RoundSqrt(data.variance),
     unit |-> data.unit]

\* main.rs line 154: x.iter().find(|prev_bench| prev_bench.cmd == bench.cmd)
RECURSIVE FindBench(_, _)
FindBench(benches, cmd) ==
    IF benches = <<>> THEN NoneOpt
    ELSE IF Head(benches).cmd = cmd THEN Some(Head(benches))
    ELSE FindBench(Tail(benches), cmd)

\* main.rs lines 159-211: what one counter adds to the row of one bench
RawCells(bench, prev_bench, counter) ==
    IF counter \in DOMAIN bench.counters
    THEN LET data == bench.counters[counter]
             prev_data == IF prev_bench.k = "none" THEN NoneOpt
                          ELSE CountersGet(prev_bench.v.counters,
                                           StripDecoration(counter))
         IN  << RawValueCell(counter, data),
                [col |-> "delta", counter |-> counter,
                 data |-> data, prev_data |-> prev_data,
                 diff |-> IF prev_data.k = "none" THEN NoneOpt
                          ELSE Some(RawDiff(data, prev_data.v))] >>
    ELSE << [col |-> "empty", counter |-> counter] >>

RECURSIVE RawRowCells(_, _, _)
RawRowCells(bench, prev_bench, counters) ==
    IF counters = <<>> THEN <<>>
    ELSE RawCells(bench, prev_bench, Head(counters))
            \o RawRowCells(bench, prev_bench, Tail(counters))

\* main.rs lines 152-214: the row of one bench
RawRow(bench, prev_group_results, available_counters) ==
    LET prev_bench == IF prev_group_results.k = "none" THEN NoneOpt
                      ELSE FindBench(prev_group_results.v, bench.cmd)
    IN  [kind |-> "trow",
         cells |-> << [col |-> "command", cmd |-> bench.cmd] >>
                      \o RawRowCells(bench, prev_bench, available_counters)]

\* main.rs lines 134-139: the BTreeSet of the counter names of a group, in order
AvailableCounters(group_results) ==
    LET names == UNION { DOMAIN group_results[i].counters : i \in 1..Len(group_results) }
    IN  SelectSeq(MetricOrder, LAMBDA name : name \in names)

RECURSIVE RawHeadCells(_)
RawHeadCells(counters) ==
    IF counters = <<>> THEN <<>>
    ELSE << [col |-> "value", counter |-> Head(counters)],
            [col |-> "delta", counter |-> Head(counters)] >>
            \o RawHeadCells(Tail(counters))

\* main.rs lines 128-215: one group of the raw dump
RawGroup(group_name, group_results, prev_results) ==
    LET prev_group_results ==
            IF prev_results.k = "none" THEN NoneOpt
            ELSE IndexMapGet(prev_results.v.bench_groups, group_name)
        available_counters == AvailableCounters(group_results)
    IN  << [kind |-> "h3", title |-> group_name],
           [kind |-> "blank"],
           [kind |-> "thead",
            cells |-> << [col |-> "command"] >> \o RawHeadCells(available_counters)],
           [kind |-> "tsep", cells |-> 1 + 2 * Len(available_counters)] >>
        \o [i \in 1..Len(group_results) |->
               RawRow(group_results[i], prev_group_results, available_counters)]

RECURSIVE RawGroups(_, _)
RawGroups(groups, prev_results) ==
    IF groups = <<>> THEN <<>>
    ELSE RawGroup(Head(groups).key, Head(groups).value, prev_results)
            \o RawGroups(Tail(groups), prev_results)

\* main.rs BenchData::render_markdown_raw
render_markdown_raw(md, data, prev_results) ==
    IF prev_results.k = "some" /\ ~EnvAgrees(data, prev_results.v)
    THEN Aborted(md)
    ELSE Written(md \o << [kind |-> "h2", commit |-> data.commit_hash,
                           parent |-> IF prev_results.k = "some"
                                      THEN Some(prev_results.v.commit_hash)
                                      ELSE NoneOpt,
                           cpu |-> data.cpu_model],
                          [kind |-> "blank"] >>
                    \o RawGroups(data.bench_groups, prev_results))

(***************************************************************************)
(* SpecStat: the statistics functions applied to a pair of counters.       *)
(***************************************************************************)
Counter(value, variance, repetitions, unit) ==
    [value |-> value, variance |-> variance, repetitions |-> repetitions, unit |-> unit]

StatCounters ==
    { Counter(v, s, r, "") : v \in Values, s \in Variances, r \in Repetitions }

HumanIdle ==
    /\ human_value = 0 /\ human_text = ""

MainIdle ==
    /\ pc = "idle" /\ config_ok = TRUE /\ commands = <<>> /\ summary_path = FALSE
    /\ history = NoneOpt /\ line_index = 1 /\ previous = NoneOpt
    /\ group_index = 1 /\ cmd_index = 1 /\ results = <<>>
    /\ running = NoneOpt /\ log = <<>> /\ stdout = <<>> /\ stderr = <<>>
    /\ summary = NoneOpt /\ panic_site = NoneOpt

OtherIdle == HumanIdle /\ MainIdle

ScoreIdle ==
    /\ df1 = 0 /\ df2 = 0
    /\ score1 = None /\ score2 = None

RenderIdle ==
    /\ bench_data = NoneOpt /\ base_results = NoneOpt
    /\ render_versus_other = <<>> /\ render_versus_self = <<>>
    /\ buf = <<>> /\ render_panicked = FALSE /\ calls = <<>>

StatInit ==
    /\ OtherIdle
    /\ old \in StatCounters
    /\ new \in StatCounters
    /\ overflow_checks \in BOOLEAN
    /\ percentage = None
    /\ significant = None
    /\ row = None
    /\ percentage_swapped = None
    /\ significant_swapped = None
    /\ ScoreIdle
    /\ RenderIdle

CallImprovementPercentage ==
    /\ percentage = None
    /\ percentage' = improvement_percentage(old, new)
    /\ UNCHANGED <<otherVars, old, new, overflow_checks, significant, row,
                   percentage_swapped, significant_swapped, scoreVars, renderVars>>

CallIsSignificant ==
    /\ percentage # None
    /\ significant = None
    /\ significant' = is_significant(old, new, overflow_checks)
    /\ UNCHANGED <<otherVars, old, new, overflow_checks, percentage, row,
                   percentage_swapped, significant_swapped, scoreVars, renderVars>>

CallRenderMarkdownRow ==
    /\ significant # None
    /\ row = None
    /\ row' = render_markdown_row("row", old, new, overflow_checks)
    /\ UNCHANGED <<otherVars, old, new, overflow_checks, percentage, significant,
                   percentage_swapped, significant_swapped, scoreVars, renderVars>>

CallImprovementPercentageSwapped ==
    /\ row # None
    /\ percentage_swapped = None
    /\ percentage_swapped' = improvement_percentage(new, old)
    /\ UNCHANGED <<otherVars, old, new, overflow_checks, percentage, significant, row,
                   significant_swapped, scoreVars, renderVars>>

CallIsSignificantSwapped ==
    /\ percentage_swapped # None
    /\ significant_swapped = None
    /\ significant_swapped' = is_significant(new, old, overflow_checks)
    /\ UNCHANGED <<otherVars, old, new, overflow_checks, percentage, significant, row,
                   percentage_swapped, scoreVars, renderVars>>

StatNext ==
    \/ CallImprovementPercentage
    \/ CallIsSignificant
    \/ CallRenderMarkdownRow
    \/ CallImprovementPercentageSwapped
    \/ CallIsSignificantSwapped

SpecStat == StatInit /\ [][StatNext]_vars

(***************************************************************************)
(* SpecScore: get_stat_score_95 applied to two degrees of freedom.         *)
(***************************************************************************)
StatIdle ==
    /\ old = Counter(0, 0, 0, "") /\ new = Counter(0, 0, 0, "")
    /\ percentage = None /\ significant = None /\ row = None
    /\ percentage_swapped = None /\ significant_swapped = None

ScoreInit ==
    /\ OtherIdle
    /\ df1 \in 0..MaxDf
    /\ df2 \in 0..MaxDf
    /\ score1 = None
    /\ score2 = None
    /\ overflow_checks \in BOOLEAN
    /\ StatIdle
    /\ RenderIdle

CallGetStatScoreFirst ==
    /\ score1 = None
    /\ score1' = get_stat_score_95(U32(df1))
    /\ UNCHANGED <<otherVars, df1, df2, score2, overflow_checks, statVars, renderVars>>

CallGetStatScoreSecond ==
    /\ score1 # None
    /\ score2 = None
    /\ score2' = get_stat_score_95(U32(df2))
    /\ UNCHANGED <<otherVars, df1, df2, score1, overflow_checks, statVars, renderVars>>

ScoreNext ==
    \/ CallGetStatScoreFirst
    \/ CallGetStatScoreSecond

SpecScore == ScoreInit /\ [][ScoreNext]_vars

(***************************************************************************)
(* SpecRender: the three renderers applied to a current run, a baseline    *)
(* and a render configuration, in the order main calls them on the step    *)
(* summary buffer (diff, self, raw).                                       *)
(***************************************************************************)
RenderCounters ==
    { Counter(100, 1, 20, ""), Counter(110, 1, 20, ""), Counter(0, 0, 1, "msec") }

CounterMaps ==
    UNION { [S -> {c}] : S \in SUBSET {Cycles, CoreCycles}, c \in RenderCounters }

DefaultCounters == [m \in {Cycles} |-> Counter(100, 1, 20, "")]

Cmd(i) == <<"bench", ToString(i)>>

Bench(cmd, counters) == [cmd |-> cmd, counters |-> counters]

Entry(key, value) == [key |-> key, value |-> value]

BenchData(commit, env, groups) ==
    [commit_hash |-> commit, arch |-> env.arch, os |-> env.os,
     runner |-> env.runner, cpu_model |-> env.cpu_model, bench_groups |-> groups]

EnvBase == [arch |-> "X64", os |-> "Linux", runner |-> "runner", cpu_model |-> "cpu"]

EnvVariants ==
    { EnvBase,
      [EnvBase EXCEPT !.arch = "ARM64"],
      [EnvBase EXCEPT !.os = "macOS"],
      [EnvBase EXCEPT !.runner = "other runner"],
      [EnvBase EXCEPT !.cpu_model = "other cpu"] }

DataGroups ==
    { << Entry("g1", [i \in 1..n |-> Bench(Cmd(i), IF i = 1 THEN first
                                                     ELSE DefaultCounters)]) >>
         \o (IF second THEN << Entry("g2", << Bench(Cmd(1), DefaultCounters) >>) >>
             ELSE <<>>)
      : n \in 1..MaxBenches, first \in CounterMaps, second \in BOOLEAN }

BaselineGroups ==
    { <<>> } \cup { << Entry("g1", << Bench(Cmd(1), first) >>) >> : first \in CounterMaps }

Reference(command, index) == [command |-> command, index |-> index]

VersusOtherFor(command, index) ==
    << Entry("referenced",
             [measure |-> Cycles, command |-> command,
              rows |-> << Entry("ref", index) >>]),
       Entry("first",
             [measure |-> Cycles, command |-> "g1",
              rows |-> << Entry("head", 0) >>]) >>

VersusSelfFor(command, index) ==
    << Entry("compare",
             << Entry("ref", [measure |-> Cycles,
                              before |-> Reference(command, index),
                              after |-> Reference("g1", 0)]),
                Entry("head", [measure |-> Cycles,
                               before |-> Reference("g1", 0),
                               after |-> Reference("g1", 0)]) >>) >>

RenderInit ==
    /\ OtherIdle
    /\ bench_data \in { BenchData("new commit", EnvBase, g) : g \in DataGroups }
    /\ base_results \in { BenchData("base commit", e, g) : e \in EnvVariants,
                                                             g \in BaselineGroups }
    /\ \E command \in {"g1", "g2"}, index \in 0..MaxBenches :
          /\ render_versus_other = VersusOtherFor(command, index)
          /\ render_versus_self = VersusSelfFor(command, index)
    /\ buf = <<>>
    /\ render_panicked = FALSE
    /\ calls = <<>>
    /\ overflow_checks \in BOOLEAN
    /\ StatIdle
    /\ ScoreIdle

Called(names) == \E i \in 1..Len(calls) : calls[i] \in names

Finish(name, result) ==
    /\ buf' = result.md
    /\ render_panicked' = result.panicked
    /\ calls' = Append(calls, name)
    /\ UNCHANGED <<otherVars, bench_data, base_results, render_versus_other, render_versus_self,
                   overflow_checks, statVars, scoreVars>>

CallRenderMarkdownDiffPretty ==
    /\ ~render_panicked
    /\ calls = <<>>
    /\ Finish("diff", render_markdown_diff_pretty(buf, render_versus_other,
                                                  base_results, bench_data,
                                                  overflow_checks))

CallRenderMarkdownSelfDiffPretty ==
    /\ ~render_panicked
    /\ ~Called({"self", "raw", "raw_baseline"})
    /\ Finish("self", render_markdown_self_diff_pretty(buf, render_versus_self,
                                                       bench_data, overflow_checks))

CallRenderMarkdownRaw ==
    /\ ~render_panicked
    /\ ~Called({"raw", "raw_baseline"})
    /\ \/ Finish("raw", render_markdown_raw(buf, bench_data, NoneOpt))
       \/ Finish("raw_baseline",
                 render_markdown_raw(buf, bench_data, Some(base_results)))

RenderNext ==
    \/ CallRenderMarkdownDiffPretty
    \/ CallRenderMarkdownSelfDiffPretty
    \/ CallRenderMarkdownRaw

SpecRender == RenderInit /\ [][RenderNext]_vars

(***************************************************************************)
(* SpecHuman: HumanReadable displayed for a whole number.                  *)
(***************************************************************************)
HumanSamples ==
    { 1234, 1235, 12345, 12355, 123456, 999994, 999995, 999999, 1000000,
      1234567, 999994999, 999995000, 999999999, 1000000000, 1234567890,
      2000000000 }

HumanValues == (0..MaxHuman) \cup (12340..12350) \cup HumanSamples

HumanInit ==
    /\ human_value \in HumanValues
    /\ human_text = ""
    /\ overflow_checks = FALSE
    /\ MainIdle
    /\ StatIdle
    /\ ScoreIdle
    /\ RenderIdle

DisplayHumanReadable ==
    /\ human_text = ""
    /\ human_text' = HumanReadable(human_value)
    /\ UNCHANGED <<human_value, overflow_checks, statVars, scoreVars, renderVars,
                   mainVars>>

HumanNext == DisplayHumanReadable

SpecHuman == HumanInit /\ [][HumanNext]_vars

(***************************************************************************)
(* SpecMain: one run of main.  A command line is a sequence of words and   *)
(* " " separators.  The measurement of a command is a process that is      *)
(* spawned and later exits with an outcome: its exit status and, if its    *)
(* output parses, the counters read from it.                               *)
(***************************************************************************)
\* `cmd.split(" ")`: the words between the separators, "" between two
\* adjacent separators
RECURSIVE SplitFrom(_, _, _)
SplitFrom(line, word, args) ==
    IF line = <<>> THEN Append(args, word)
    ELSE IF Head(line) = " " THEN SplitFrom(Tail(line), "", Append(args, word))
    ELSE SplitFrom(Tail(line), word \o Head(line), args)

Split(line) == SplitFrom(line, "", <<>>)

\* variant: an unsuccessful or unparsable measurement yields a result without
\* counters
bench_single_cmd_ignoring_failure(cmd, outcome) ==
    IF ~outcome.success \/ outcome.output.k = "none" THEN Ok(Bench(cmd, <<>>))
    ELSE Ok(Bench(cmd, outcome.output.v))

\* bench.rs bench_single_cmd: the assert! on the exit status, the unwrap of
\* the parse of the output, and the SingleBench built from the counters
bench_single_cmd(cmd, outcome) ==
    IF ~outcome.success THEN Panic
    ELSE IF outcome.output.k = "none" THEN Panic
    ELSE Ok(Bench(cmd, outcome.output.v))

\* variant: the result is put in front of the earlier ones
Push_front(vec, x) == <<x>> \o vec

\* Vec::push
Push(vec, x) == Append(vec, x)

\* IndexMap::insert: the value of an existing key is replaced in place, a new
\* key is appended
IndexMapInsert(m, key, value) ==
    IF \E i \in 1..Len(m) : m[i].key = key
    THEN [i \in 1..Len(m) |-> IF m[i].key = key THEN Entry(key, value) ELSE m[i]]
    ELSE Append(m, Entry(key, value))

BaseCommit == "base commit"

CommandLine(i) == <<"bench", " ", ToString(i)>>

GroupLines ==
    UNION { [1..n -> {CommandLine(1), CommandLine(2)}] : n \in 0..MaxCommands }

CommandConfigs ==
    { << Entry("g1", lines) >> : lines \in GroupLines }
    \cup { << Entry("g2", << a >>), Entry("g1", << b >>) >>
           : a, b \in {CommandLine(1), CommandLine(2)} }

MeasuredCounters ==
    { [m \in {Cycles} |-> Counter(100, 1, 20, "")],
      [m \in {Cycles} |-> Counter(110, 1, 20, "")] }

Outcomes ==
    { [success |-> FALSE, output |-> NoneOpt], [success |-> TRUE, output |-> NoneOpt] }
    \cup { [success |-> TRUE, output |-> Some(c)] : c \in MeasuredCounters }

\* a line of the history: not UTF-8, text that is not a BenchData, or the
\* BenchData of an earlier run
HistoryLines ==
    { [kind |-> "invalid utf8"], [kind |-> "text"] }
    \cup { [kind |-> "record",
            data |-> BenchData(commit, env,
                               << Entry("g1", << Bench(Cmd(1), DefaultCounters) >>) >>)]
           : commit \in {BaseCommit, "other commit"},
             env \in {EnvBase, [EnvBase EXCEPT !.cpu_model = "other cpu"]} }

Histories ==
    { NoneOpt } \cup { Some(h) : h \in UNION { [1..n -> HistoryLines] : n \in 0..MaxHistory } }

MainInit ==
    /\ pc = "start"
    /\ config_ok \in BOOLEAN
    /\ IF config_ok
       THEN /\ commands \in CommandConfigs
            /\ \E versus \in SUBSET {"self", "other"} :
                  /\ render_versus_other =
                        IF "other" \in versus THEN VersusOtherFor("g1", 0) ELSE <<>>
                  /\ render_versus_self =
                        IF "self" \in versus THEN VersusSelfFor("g1", 0) ELSE <<>>
       ELSE commands = <<>> /\ render_versus_other = <<>> /\ render_versus_self = <<>>
    /\ summary_path \in BOOLEAN
    /\ history \in Histories
    /\ line_index = 1 /\ previous = NoneOpt
    /\ group_index = 1 /\ cmd_index = 1 /\ results = <<>>
    /\ running = NoneOpt /\ log = <<>> /\ stdout = <<>> /\ stderr = <<>>
    /\ summary = NoneOpt /\ panic_site = NoneOpt
    /\ bench_data = NoneOpt /\ base_results = NoneOpt
    /\ buf = <<>> /\ render_panicked = FALSE /\ calls = <<>>
    /\ overflow_checks \in BOOLEAN
    /\ HumanIdle
    /\ StatIdle
    /\ ScoreIdle

\* what no step of main changes
mainFrame ==
    <<overflow_checks, statVars, scoreVars, humanVars, mainInputs, base_results,
      render_versus_other, render_versus_self, render_panicked, calls>>

PanicAt(site) == pc' = "panicked" /\ panic_site' = Some(site)

\* main.rs lines 366-409: the BenchData of this run is built and the config
\* file is parsed
Start ==
    /\ pc = "start"
    /\ bench_data' = BenchData("new commit", EnvBase, <<>>)
    /\ stderr' = Append(stderr, [kind |-> "current commit", name |-> "new commit"])
    /\ IF config_ok THEN pc' = "scan" /\ UNCHANGED panic_site
       ELSE PanicAt("config")
    /\ UNCHANGED <<mainFrame, buf, line_index, previous, group_index, cmd_index, results,
                   running, log, stdout, summary>>

\* main.rs lines 411-448: one line of the history is examined, or the scan
\* ends without a match
ScanLine ==
    /\ pc = "scan"
    /\ LET lines == IF history.k = "none" THEN <<>> ELSE history.v
       IN  IF line_index > Len(lines)
           THEN /\ previous' = NoneOpt
                /\ stderr' = Append(stderr, [kind |-> "base commit", name |-> "none"])
                /\ pc' = "bench"
                /\ UNCHANGED <<line_index, panic_site>>
           ELSE LET line == lines[line_index]
                IN  IF line.kind = "invalid utf8"
                    THEN /\ PanicAt("history")
                         /\ UNCHANGED <<line_index, previous, stderr>>
                    ELSE IF line.kind = "record" /\ line.data.commit_hash = BaseCommit
                    THEN /\ previous' = Some(line.data)
                         /\ stderr' = Append(stderr, [kind |-> "base commit",
                                                      name |-> line.data.commit_hash])
                         /\ pc' = "bench"
                         /\ UNCHANGED <<line_index, panic_site>>
                    ELSE /\ line_index' = line_index + 1
                         /\ UNCHANGED <<pc, previous, stderr, panic_site>>
    /\ UNCHANGED <<mainFrame, buf, bench_data, group_index, cmd_index, results,
                   running, log, stdout, summary>>

\* main.rs lines 450-463 and bench.rs: the measurement process of the next
\* command line is spawned
SpawnCommand ==
    /\ pc = "bench"
    /\ group_index <= Len(commands)
    /\ cmd_index <= Len(commands[group_index].value)
    /\ running' = Some(Split(commands[group_index].value[cmd_index]))
    /\ log' = Append(log, [ev |-> "spawn", group |-> group_index, index |-> cmd_index])
    /\ pc' = "wait"
    /\ UNCHANGED <<mainFrame, buf, bench_data, line_index, previous, group_index, cmd_index,
                   results, stdout, stderr, summary, panic_site>>

\* bench.rs: the measurement process exits; its status is checked, its output
\* parsed, and the result pushed
ReapCommand ==
    /\ pc = "wait"
    /\ \E outcome \in Outcomes :
          LET result == bench_single_cmd(running.v, outcome)
          IN  /\ log' = Append(log, [ev |-> "exit", group |-> group_index,
                                     index |-> cmd_index, outcome |-> outcome])
              /\ IF result.panicked
                 THEN PanicAt("bench") /\ UNCHANGED <<results, cmd_index>>
                 ELSE /\ results' = Push(results, result.value)
                      /\ cmd_index' = cmd_index + 1
                      /\ pc' = "bench"
                      /\ UNCHANGED panic_site
    /\ running' = NoneOpt
    /\ UNCHANGED <<mainFrame, buf, bench_data, line_index, previous, group_index,
                   stdout, stderr, summary>>

\* main.rs line 462: the results of a group are inserted under its name
InsertGroup ==
    /\ pc = "bench"
    /\ group_index <= Len(commands)
    /\ cmd_index > Len(commands[group_index].value)
    /\ bench_data' = [bench_data EXCEPT !.bench_groups =
                         IndexMapInsert(@, commands[group_index].key, results)]
    /\ group_index' = group_index + 1
    /\ cmd_index' = 1
    /\ results' = <<>>
    /\ UNCHANGED <<mainFrame, buf, pc, line_index, previous, running, log,
                   stdout, stderr, summary, panic_site>>

\* main.rs line 465: the BenchData line is printed to stdout
PrintBenchData ==
    /\ pc = "bench"
    /\ group_index > Len(commands)
    /\ stdout' = Append(stdout, bench_data)
    /\ pc' = "raw"
    /\ UNCHANGED <<mainFrame, buf, bench_data, line_index, previous, group_index, cmd_index,
                   results, running, log, stderr, summary, panic_site>>

\* main.rs lines 467-471: the raw dump is rendered and printed to stderr
PrintRawDump ==
    /\ pc = "raw"
    /\ LET raw == render_markdown_raw(<<>>, bench_data, previous)
       IN  IF raw.panicked
           THEN PanicAt("raw") /\ UNCHANGED stderr
           ELSE /\ stderr' = Append(stderr, [kind |-> "report", md |-> raw.md])
                /\ pc' = IF summary_path THEN "summary" ELSE "done"
                /\ UNCHANGED panic_site
    /\ UNCHANGED <<mainFrame, buf, bench_data, line_index, previous, group_index, cmd_index,
                   results, running, log, stdout, summary>>

\* a renderer has returned into buf, or has panicked
Rendered(result, next) ==
    /\ buf' = result.md
    /\ pc' = IF result.panicked THEN "panicked" ELSE next
    /\ panic_site' = IF result.panicked THEN Some("summary") ELSE panic_site

\* main.rs lines 473-487: a fresh buffer; the comparison with the baseline is
\* rendered if one is configured and a baseline was found
RenderSummaryDiff ==
    /\ pc = "summary"
    /\ \/ /\ render_versus_other # <<>> /\ previous.k = "some"
          /\ Rendered(render_markdown_diff_pretty(buf, render_versus_other, previous.v,
                                                  bench_data, overflow_checks),
                      "self")
       \/ /\ ~(render_versus_other # <<>> /\ previous.k = "some")
          /\ pc' = "self"
          /\ UNCHANGED <<buf, panic_site>>
    /\ UNCHANGED <<mainFrame, bench_data, line_index, previous, group_index, cmd_index,
                   results, running, log, stdout, stderr, summary>>

\* main.rs lines 489-495: the comparison within the run is rendered if one is
\* configured
RenderSummarySelf ==
    /\ pc = "self"
    /\ \/ /\ render_versus_self # <<>>
          /\ Rendered(render_markdown_self_diff_pretty(buf, render_versus_self,
                                                       bench_data, overflow_checks),
                      "write")
       \/ /\ render_versus_self = <<>>
          /\ pc' = "write"
          /\ UNCHANGED <<buf, panic_site>>
    /\ UNCHANGED <<mainFrame, bench_data, line_index, previous, group_index, cmd_index,
                   results, running, log, stdout, stderr, summary>>

\* main.rs lines 497-512: the raw dump is appended, hidden when the buffer is
\* not empty, and the buffer is written to the step-summary file
WriteStepSummary ==
    /\ pc = "write"
    /\ LET hide == buf # <<>>
           raw == render_markdown_raw(IF hide THEN Append(buf, [kind |-> "details"])
                                      ELSE buf,
                                      bench_data, previous)
       IN  IF raw.panicked
           THEN PanicAt("summary") /\ UNCHANGED <<buf, summary>>
           ELSE /\ buf' = IF hide THEN Append(raw.md, [kind |-> "end details"])
                          ELSE raw.md
                /\ summary' = Some(buf')
                /\ pc' = "done"
                /\ UNCHANGED panic_site
    /\ UNCHANGED <<mainFrame, bench_data, line_index, previous, group_index, cmd_index,
                   results, running, log, stdout, stderr>>

MainNext ==
    \/ Start
    \/ ScanLine
    \/ SpawnCommand
    \/ ReapCommand
    \/ InsertGroup
    \/ PrintBenchData
    \/ PrintRawDump
    \/ RenderSummaryDiff
    \/ RenderSummarySelf
    \/ WriteStepSummary

SpecMain == MainInit /\ [][MainNext]_vars

(***************************************************************************)
(* Properties of the statistics functions (SpecStat, SpecScore).           *)
(***************************************************************************)
ValidRepetitions ==
    /\ old.repetitions >= 1
    /\ new.repetitions >= 1
    /\ old.repetitions + new.repetitions - 2 >= 1

\* C1: for old.value # 0 the percentage change of a comparison row is
\* (new.value - old.value) / old.value * 100, relative to the old value.
C1_PercentageRelativeToOld ==
    /\ (percentage # None /\ old.value # 0)
          => FEq(percentage, FScale(FDiv(new.value - old.value, old.value), 100))
    /\ (row # None /\ ~row.panicked /\ old.value # 0)
          => FEq(row.value.percentage,
                 FScale(FDiv(new.value - old.value, old.value), 100))

\* the critical value as the claim describes it: the df-th entry of the
\* 30-entry table, the entry for floor(df/10)*10 of the every-10th table, 1.96
C2_EveryTenth ==
    [d \in {10 * i : i \in 1..12} |-> T_TABLE95_10S_10TO120[d \div 10]]

C2_CriticalValue(df) ==
    IF df \in 1..30 THEN T_TABLE95_1TO30[df]
    ELSE IF df \in 31..120 THEN C2_EveryTenth[(df \div 10) * 10]
    ELSE 1960

\* t > c with t = |new.value - old.value| / se, se^2 = P/df * (n1+n2)/(n1*n2):
\* d^2 * df * n1 * n2 * 10^6 > c^2 * P * (n1 + n2) when P > 0, and t is
\* infinite (d # 0) or NaN (d = 0) when P = 0
C2_TExceeds(o, n, c) ==
    LET n1 == o.repetitions
        n2 == n.repetitions
        df == n1 + n2 - 2
        P == (n1 - 1) * o.variance + (n2 - 1) * n.variance
        d == Abs(n.value - o.value)
    IN  IF P = 0 THEN d # 0
        ELSE BigGT(BigMul(BigMul(BigMul(BigMul(BigMul(BigOf(d * d), df), n1), n2),
                                 1000), 1000),
                   BigMul(BigMul(BigOf(c * c), P), n1 + n2))

\* C2: with at least one repetition on each side and df >= 1, is_significant
\* is true iff t > c for the pooled t statistic and the tabulated critical
\* value; (100, 1, 20) versus (110, 1, 20) is significant.
C2_SignificantIffTExceedsCritical ==
    (significant # None /\ ValidRepetitions)
       => /\ ~significant.panicked
          /\ significant.value
               = C2_TExceeds(old, new,
                             C2_CriticalValue(old.repetitions + new.repetitions - 2))
          /\ (old = Counter(100, 1, 20, "") /\ new = Counter(110, 1, 20, ""))
               => significant.value

C2_Witness ==
    /\ significant # None
    /\ old = Counter(100, 1, 20, "")
    /\ new = Counter(110, 1, 20, "")
    /\ ~significant.panicked
    /\ significant.value

\* C3: when old.repetitions + new.repetitions - 2 < 1, is_significant
\* returns false and does not panic.
C3_DegenerateIsNotSignificant ==
    (significant # None /\ old.repetitions + new.repetitions - 2 < 1)
       => (~significant.panicked /\ significant.value = FALSE)

\* C6: get_stat_score_95 is non-increasing in df for df >= 1 and is exactly
\* 1.96 for df > 120.
C6_ScoreNonIncreasing ==
    /\ (score1 # None /\ score2 # None /\ 1 <= df1 /\ df1 <= df2)
          => (~score1.panicked /\ ~score2.panicked /\ score1.value >= score2.value)
    /\ (score1 # None /\ df1 > 120)
          => (~score1.panicked /\ score1.value = 1960)

\* C7: with valid repetitions, swapping the arguments keeps the result of
\* is_significant, and the sign of improvement_percentage flips whenever
\* old.value # new.value.
C7_SwapKeepsVerdictFlipsSign ==
    /\ (significant_swapped # None /\ ValidRepetitions)
          => significant_swapped = significant
    /\ (percentage_swapped # None /\ old.value # new.value)
          => \/ (FPositive(percentage) /\ FNegative(percentage_swapped))
             \/ (FNegative(percentage) /\ FPositive(percentage_swapped))

C7_Witness ==
    /\ significant_swapped # None
    /\ ValidRepetitions
    /\ old.value # new.value
    /\ old.variance # new.variance
    /\ old.repetitions # new.repetitions
    /\ ~significant.panicked
    /\ significant.value

\* C8: improvement_percentage(a, a) is exactly 0 for every counter a,
\* value = 0 included.
C8_SelfPercentageIsZero ==
    (percentage # None /\ old = new) => FEq(percentage, Fin(0, 1))

\* C9: is_significant(a, a) is false for every counter a with at least two
\* repetitions, variance = 0 included.
C9_SelfIsNotSignificant ==
    (significant # None /\ old = new /\ old.repetitions >= 2)
       => (~significant.panicked /\ significant.value = FALSE)

C9_Witness ==
    /\ significant # None
    /\ old = new
    /\ old.repetitions >= 2
    /\ old.variance = 0
    /\ ~significant.panicked

(***************************************************************************)
(* Properties of the renderers (SpecRender).                               *)
(***************************************************************************)
EnvDiffers ==
    \/ bench_data.arch # base_results.arch
    \/ bench_data.os # base_results.os
    \/ bench_data.runner # base_results.runner
    \/ bench_data.cpu_model # base_results.cpu_model

\* a reference resolves: the group exists, the index is in range and the
\* metric is among the counters found there
Resolves(d, command, index, measure) ==
    \E i \in 1..Len(d.bench_groups) :
        /\ d.bench_groups[i].key = command
        /\ index < Len(d.bench_groups[i].value)
        /\ measure \in DOMAIN d.bench_groups[i].value[index + 1].counters

RECURSIVE DiffRowList(_)
DiffRowList(render) ==
    IF render = <<>> THEN <<>>
    ELSE [i \in 1..Len(Head(render).value.rows) |->
             [name |-> Head(render).value.rows[i].key,
              command |-> Head(render).value.command,
              index |-> Head(render).value.rows[i].value,
              measure |-> Head(render).value.measure]]
         \o DiffRowList(Tail(render))

DiffRowResolves(r) ==
    /\ Resolves(base_results, r.command, r.index, r.measure)
    /\ Resolves(bench_data, r.command, r.index, r.measure)

RECURSIVE SelfRowList(_)
SelfRowList(render) ==
    IF render = <<>> THEN <<>>
    ELSE Head(render).value \o SelfRowList(Tail(render))

SelfRowResolves(r) ==
    /\ Resolves(bench_data, r.value.before.command, r.value.before.index, r.value.measure)
    /\ Resolves(bench_data, r.value.after.command, r.value.after.index, r.value.measure)

Names(rows) == [i \in 1..Len(rows) |-> rows[i].name]
Keys(rows) == [i \in 1..Len(rows) |-> rows[i].key]

RenderedRows == SelectSeq(buf, LAMBDA item : item.kind = "row")

\* every counter of both runs has enough repetitions for the t-test
EnoughRepetitions ==
    \A d \in {bench_data, base_results} :
        \A i \in 1..Len(d.bench_groups) :
            \A j \in 1..Len(d.bench_groups[i].value) :
                \A m \in DOMAIN d.bench_groups[i].value[j].counters :
                    d.bench_groups[i].value[j].counters[m].repetitions >= 2

\* C4: in both comparison renderers a row whose reference does not resolve
\* (group absent, index out of range, metric absent) produces no row and no
\* crash, and every other row of the report is rendered.
C4_UnresolvedRowIsSkipped ==
    /\ ( /\ calls = <<"diff">>
         /\ ~EnvDiffers
         /\ EnoughRepetitions
         /\ \E i \in 1..Len(DiffRowList(render_versus_other)) :
               ~DiffRowResolves(DiffRowList(render_versus_other)[i]) )
          => /\ ~render_panicked
             /\ Names(RenderedRows)
                  = Names(SelectSeq(DiffRowList(render_versus_other), DiffRowResolves))
    /\ ( /\ calls = <<"self">>
         /\ EnoughRepetitions
         /\ \E i \in 1..Len(SelfRowList(render_versus_self)) :
               ~SelfRowResolves(SelfRowList(render_versus_self)[i]) )
          => /\ ~render_panicked
             /\ Names(RenderedRows)
                  = Keys(SelectSeq(SelfRowList(render_versus_self), SelfRowResolves))

\* C5: when the current and the baseline BenchData differ in arch, os,
\* runner or cpu_model, render_markdown_raw with a baseline and
\* render_markdown_diff_pretty abort without appending anything to the buffer.
C5_MismatchAbortsBeforeOutput ==
    [][ ( /\ Len(calls') = Len(calls) + 1
          /\ calls'[Len(calls')] \in {"raw_baseline", "diff"}
          /\ EnvDiffers )
           => (render_panicked' /\ buf' = buf) ]_vars

C5_Witness ==
    /\ EnvDiffers
    /\ calls = <<"self", "raw_baseline">>
    /\ render_panicked
    /\ RenderedRows # <<>>

FNeg(x) ==
    IF x.k = "nan" THEN x
    ELSE IF x.k = "inf" THEN Inf(-x.s)
    ELSE Fin(-x.n, x.d)

SameNumber(x, y) == (x.k = "nan" /\ y.k = "nan") \/ FEq(x, y)

\* the number a raw-dump delta cell prints: its sign and its magnitude
PrintedDelta(diff) == IF diff.sign = "-" THEN FNeg(diff.number) ELSE diff.number

\* C10: for the same pair (baseline counter, current counter) the delta of
\* the raw dump and the percentage of the comparison table are the same number.
C10_OneConvention ==
    calls = <<"diff", "raw_baseline">>
       => \A i, j \in 1..Len(buf) :
             (buf[i].kind = "row" /\ buf[j].kind = "trow")
                => \A c \in 1..Len(buf[j].cells) :
                      LET cell == buf[j].cells[c]
                      IN  ( /\ cell.col = "delta"
                            /\ cell.diff.k = "some"
                            /\ cell.prev_data.v.value = buf[i].before
                            /\ cell.data.value = buf[i].after )
                             => SameNumber(PrintedDelta(cell.diff.v),
                                           buf[i].percentage)


\* C11: a rendered comparison row carries the "worse" marker iff the change is
\* significant and the percentage is greater than 0, the "better" marker iff
\* it is significant and the percentage is less than 0, and the neutral
\* placeholder iff it is not significant.
C11_MarkerFollowsVerdictAndSign ==
    (row # None /\ ~row.panicked)
       => /\ ~significant.panicked
          /\ row.value.marker \in {"worse", "better", "none"}
          /\ row.value.marker = "worse" <=> (significant.value /\ FPositive(percentage))
          /\ row.value.marker = "better" <=> (significant.value /\ FNegative(percentage))
          /\ row.value.marker = "none" <=> ~significant.value

C11_Witness ==
    /\ row # None
    /\ ~row.panicked
    /\ row.value.marker = "better"
    /\ significant.value
    /\ percentage.k = "inf"

\* the number of cells of a raw-dump table line
CellCount(item) == IF item.kind = "tsep" THEN item.cells ELSE Len(item.cells)

\* the lines of the raw dump of group number g of bench_data, when the raw
\* dump is what the buffer holds
RawTableOf(g) ==
    LET starts == { i \in 1..Len(buf) : buf[i].kind = "h3" }
        start == CHOOSE i \in starts : Cardinality({ j \in starts : j <= i }) = g
        later == { i \in starts : i > start }
        stop == IF later = {} THEN Len(buf) + 1
                ELSE CHOOSE i \in later : \A j \in later : i <= j
    IN  SubSeq(buf, start, stop - 1)

\* C16: every raw-dump table is rectangular: one data row per command of the
\* group, each with as many cells as the header row (the command cell and a
\* value cell and a delta cell per metric of the group), with or without a
\* baseline.
C16_RawTablesAreRectangular ==
    (calls \in {<<"raw">>, <<"raw_baseline">>} /\ ~render_panicked)
       => \A g \in 1..Len(bench_data.bench_groups) :
             LET table == RawTableOf(g)
                 head == SelectSeq(table, LAMBDA item : item.kind = "thead")
                 rows == SelectSeq(table, LAMBDA item : item.kind = "trow")
                 group == bench_data.bench_groups[g].value
                 metrics == UNION { DOMAIN group[i].counters : i \in 1..Len(group) }
             IN  /\ Len(head) = 1
                 /\ CellCount(head[1]) = 1 + 2 * Cardinality(metrics)
                 /\ Len(rows) = Len(group)
                 /\ \A i \in 1..Len(rows) :
                       /\ rows[i].cells[1].cmd = group[i].cmd
                       /\ CellCount(rows[i]) = CellCount(head[1])


\* Properties of HumanReadable (SpecHuman).
\* the divisor HumanReadable applies to v: the largest of 10^3, 10^6, 10^9
\* not exceeding v
HumanUnit(v) ==
    IF v >= 1000000000 THEN 1000000000
    ELSE IF v >= 1000000 THEN 1000000 ELSE 1000

HumanSuffix(v) ==
    IF v >= 1000000000 THEN "G" ELSE IF v >= 1000000 THEN "M" ELSE "K"

\* the hundredths h of v / HumanUnit(v) that human_text shows, if it shows
\* a two-decimal number followed by the suffix of v
ShownHundredths ==
    LET step == HumanUnit(human_value) \div 100
        hx == human_value \div step
    IN  { h \in {hx, hx + 1} :
            human_text = PadLeft(ToString(h \div 100) \o "." \o TwoDigits(h % 100), 6)
                            \o HumanSuffix(human_value) }

\* human_text is v scaled by its unit, rounded to two decimals, and suffixed
ScaledToTwoDecimals ==
    LET step == HumanUnit(human_value) \div 100
    IN  /\ Cardinality(ShownHundredths) = 1
        /\ \A h \in ShownHundredths :
              /\ 2 * (h * step - human_value) <= step
              /\ 2 * (human_value - h * step) <= step

HumanExamples ==
    /\ human_value = 12 => human_text = "     12"
    /\ human_value = 123 => human_text = "    123"
    /\ human_value = 1234 => human_text = "  1.23K"
    /\ human_value = 12345 => human_text = " 12.35K"
    /\ human_value = 123456 => human_text = "123.46K"
    /\ human_value = 1234567 => human_text = "  1.23M"
    /\ human_value = 1000000000 => human_text = "  1.00G"

ShapeOfHumanText ==
    /\ human_value < 1000 => human_text = PadLeft(ToString(human_value), 7)
    /\ human_value >= 1000 => ScaledToTwoDecimals
    /\ HumanExamples

\* C13 as stated: every displayed value is a 7-character string, unsuffixed
\* without decimals below 1000 and otherwise scaled by the largest unit not
\* exceeding it, with two decimals and the suffix K, M or G.
C13_AlwaysSevenCharacters ==
    human_text # "" => (ShapeOfHumanText /\ Len(human_text) = 7)

\* C13: every displayed value is a right-aligned string of at least 7
\* characters, unsuffixed without decimals below 1000 and otherwise scaled by
\* the largest unit not exceeding it, with two decimals and the suffix K, M
\* or G; it has exactly 7 characters unless the scaled value rounds to
\* 1000.00 or more, and then it is longer.
C13_SevenCharactersUnlessRoundedToThousand ==
    human_text # "" =>
       /\ ShapeOfHumanText
       /\ Len(human_text) >= 7
       /\ Len(human_text) = 7 <=>
             (human_value < 1000 \/ \A h \in ShownHundredths : h < 100000)

C13_Witness ==
    /\ human_value = 999999
    /\ human_text = "1000.00K"


\* Properties of a run of main (SpecMain).
HistoryOnDisk == IF history.k = "none" THEN <<>> ELSE history.v

IsBaseRecord(line) == line.kind = "record" /\ line.data.commit_hash = BaseCommit

\* the first line of the history that is a BenchData of the base commit
FirstBaseRecord ==
    LET found == { i \in 1..Len(HistoryOnDisk) : IsBaseRecord(HistoryOnDisk[i]) }
    IN  IF found = {} THEN NoneOpt
        ELSE Some(HistoryOnDisk[CHOOSE i \in found : \A j \in found : i <= j].data)

\* the scan of the history has ended: the base commit has been reported
ScanEnded == \E n \in 1..Len(stderr) : stderr[n].kind = "base commit"

\* md shows something of a baseline: a heading naming a parent commit, or a
\* delta against a baseline counter
ComparesWithBaseline(md) ==
    \E n \in 1..Len(md) :
       \/ md[n].kind = "h2" /\ md[n].parent.k = "some"
       \/ /\ md[n].kind = "trow"
          /\ \E c \in 1..Len(md[n].cells) :
                md[n].cells[c].col = "delta" /\ md[n].cells[c].prev_data.k = "some"

\* C12: no line of the history aborts the scan: a line that is not a
\* BenchData is skipped; the baseline is the first line that is a BenchData
\* of the base commit; without such a line (or without a history) there is no
\* baseline, the raw dump is rendered without it and nothing rendered
\* compares with a baseline.
C12_BaselineLookup ==
    /\ panic_site # Some("history")
    /\ ScanEnded => previous = FirstBaseRecord
    /\ (ScanEnded /\ FirstBaseRecord = NoneOpt) =>
          /\ panic_site # Some("raw")
          /\ \A n \in 1..Len(stderr) :
                stderr[n].kind = "report" => ~ComparesWithBaseline(stderr[n].md)
          /\ summary.k = "some" => ~ComparesWithBaseline(summary.v)
          /\ pc = "done" => \E n \in 1..Len(stderr) : stderr[n].kind = "report"

IsFailure(event) ==
    /\ event.ev = "exit"
    /\ ~event.outcome.success \/ event.outcome.output.k = "none"

SomeCommandFailed == \E n \in 1..Len(log) : IsFailure(log[n])

Measured(g, i) ==
    \E n \in 1..Len(log) :
       /\ log[n].ev = "exit" /\ log[n].group = g /\ log[n].index = i
       /\ ~IsFailure(log[n])

\* C14: once the measurement of a command has failed, the run is aborted and
\* neither the BenchData line nor a markdown report nor the step summary is
\* ever written; the BenchData line is written only when every command of
\* every group has been measured successfully.
C14_NoPartialRun ==
    /\ SomeCommandFailed =>
          /\ pc = "panicked"
          /\ stdout = <<>>
          /\ \A n \in 1..Len(stderr) : stderr[n].kind # "report"
          /\ summary = NoneOpt
    /\ stdout # <<>> =>
          \A g \in 1..Len(commands) :
             \A i \in 1..Len(commands[g].value) : Measured(g, i)

C14_Witness ==
    /\ SomeCommandFailed
    /\ Measured(1, 1)
    /\ pc = "panicked"
    /\ stdout = <<>>

\* the command lines of the configuration, in declared order
RECURSIVE Declared(_)
Declared(g) ==
    IF g > Len(commands) THEN <<>>
    ELSE [i \in 1..Len(commands[g].value) |-> [group |-> g, index |-> i]]
            \o Declared(g + 1)

ExitOf(g, i) ==
    log[CHOOSE n \in 1..Len(log) :
           log[n].ev = "exit" /\ log[n].group = g /\ log[n].index = i]

\* C15: measurement processes are spawned one at a time, each after the exit
\* of the one before, in the declared order of groups and command lines; the
\* groups of the BenchData are in configuration order and the i-th result of
\* a group is the result of its i-th command line.
C15_OneAtATimeInDeclaredOrder ==
    /\ Len(log) <= 2 * Len(Declared(1))
    /\ \A n \in 1..Len(log) :
          /\ log[n].ev = IF n % 2 = 1 THEN "spawn" ELSE "exit"
          /\ log[n].group = Declared(1)[(n + 1) \div 2].group
          /\ log[n].index = Declared(1)[(n + 1) \div 2].index
    /\ running.k = "some" <=> Len(log) % 2 = 1
    /\ pc \notin {"idle", "start"} =>
          /\ Len(bench_data.bench_groups) <= Len(commands)
          /\ \A g \in 1..Len(bench_data.bench_groups) :
                LET group == bench_data.bench_groups[g]
                IN  /\ group.key = commands[g].key
                    /\ Len(group.value) = Len(commands[g].value)
                    /\ \A i \in 1..Len(group.value) :
                          /\ group.value[i].cmd = Split(commands[g].value[i])
                          /\ group.value[i].counters = ExitOf(g, i).outcome.output.v
    /\ stdout # <<>> =>
          /\ stdout = << bench_data >>
          /\ Len(bench_data.bench_groups) = Len(commands)

C15_Witness ==
    /\ pc = "done"
    /\ commands = << Entry("g1", << CommandLine(2), CommandLine(1) >>) >>
    /\ stdout # <<>>
    /\ stdout[1].bench_groups[1].value[1].cmd = <<"bench", "2">>
    /\ ExitOf(1, 1).outcome # ExitOf(1, 2).outcome

====
